---- MODULE Spec2Model ----
(***************************************************************************)
(* The local cron operations (cron/local-ops.ts): a job collection kept    *)
(* in one JSON document, and the operations that load it, change it and    *)
(* save it again.                                                          *)
(*                                                                         *)
(* A JavaScript object is a TLA+ record; a property that is undefined is   *)
(* a field the record does not have (JSON drops undefined properties, so   *)
(* this is also what the saved document holds).                            *)
(***************************************************************************)
EXTENDS Integers, Sequences, FiniteSets, TLC

\* ------------------------------------------------------------------ bounds
\* Date.now() runs from 1 to MaxTime.
MaxTime == 3
\* Number of ids randomUUID() hands out, i.e. of addJob calls.
MaxIds == 2
\* addJob is not called while the store holds MaxJobs jobs.
MaxJobs == 1
\* How far the clock can advance while an operation awaits loadCronStore.
MaxDelay == 1

\* ------------------------------------------------------- JavaScript objects
\* The value of an expression that evaluates to undefined (a number otherwise).
undefined == -1

Has(o, k) == k \in DOMAIN o

Put(o, k, v) == [f \in DOMAIN o \cup {k} |-> IF f = k THEN v ELSE o[f]]

\* an assignment of undefined that leaves the property as it was
Del_Keeps(o, k) == o

Del(o, k) == [f \in DOMAIN o \ {k} |-> o[f]]

\* o.k = v, where v may be undefined
PutOpt(o, k, v) == IF v = undefined THEN Del(o, k) ELSE Put(o, k, v)

\* { ...a, ...b }
Spread(a, b) == [f \in DOMAIN a \cup DOMAIN b |-> IF f \in DOMAIN b THEN b[f] ELSE a[f]]

\* {}
EmptyObj == [f \in {} |-> 0]

\* a boolean property used as a condition: undefined is falsy
Truthy(o, k) == Has(o, k) /\ o[k]

\* a numeric property used as a condition: undefined and 0 are falsy
TruthyNum(o, k) == Has(o, k) /\ o[k] # 0

\* array.filter: the elements satisfying Test, in order
Filter(s, Test(_)) == SelectSeq(s, Test)

\* findIndex that returns the first index when no element has the id
FindIndex_OrFirst(jobs, id) ==
  IF \E i \in 1..Len(jobs) : jobs[i].id = id
  THEN CHOOSE i \in 1..Len(jobs) : jobs[i].id = id /\ \A k \in 1..(i - 1) : jobs[k].id # id
  ELSE IF jobs = <<>> THEN 0 ELSE 1

\* array.findIndex by id: 0 stands for -1 (indices start at 1 here)
FindIndex(jobs, id) ==
  IF \E i \in 1..Len(jobs) : jobs[i].id = id
  THEN CHOOSE i \in 1..Len(jobs) : jobs[i].id = id /\ \A k \in 1..(i - 1) : jobs[k].id # id
  ELSE 0

\* ------------------------------------------------------ Schedule Evaluator
\* schedule.js is not part of the sources at hand; the Evaluator follows the
\* specification's section 4.1.
\* A cron expression is a step over the time unit: "*/2" matches every time
\* divisible by 2. Any other expression is malformed.
CronExpressions == {"*/2"}

CronStep(expression) == IF expression = "*/2" THEN 2 ELSE 1

\* computeNextRunAtMs throws ScheduleError
ScheduleThrows(schedule) ==
  schedule.kind = "cron" /\ schedule.expression \notin CronExpressions

computeNextRunAtMs(schedule, nowMs) ==
  CASE schedule.kind = "at" ->
         IF schedule.atMs > nowMs THEN schedule.atMs ELSE undefined
    [] schedule.kind = "every" ->
         IF nowMs < schedule.anchorMs
         THEN schedule.anchorMs
         ELSE schedule.anchorMs
              + (((nowMs - schedule.anchorMs) \div schedule.intervalMs) + 1) * schedule.intervalMs
    [] schedule.kind = "cron" ->
         ((nowMs \div CronStep(schedule.expression)) + 1) * CronStep(schedule.expression)

\* ------------------------------------------------------------ local-ops.ts
\* computeNextRun with a reference time one unit early
computeNextRun_OneEarly(job, nowMs) == computeNextRunAtMs(job.schedule, nowMs - 1)

computeNextRun(job, nowMs) == computeNextRunAtMs(job.schedule, nowMs)

\* The outcome of an operation on a loaded store: the tagged result, and the
\* store handed to saveCronStore when the operation saves.
Ok(data, store) == [ok |-> TRUE, data |-> data, save |-> TRUE, store |-> store]

OkNoSave(data) == [ok |-> TRUE, data |-> data, save |-> FALSE]

Err(error) == [ok |-> FALSE, error |-> error, save |-> FALSE]

\* addJob that gives every job the same id
addJobOn_SameId(store, input, now, id) ==
  LET notDisabled == ~Has(input, "enabled") \/ input.enabled # FALSE
      state == IF notDisabled
               THEN PutOpt(EmptyObj, "nextRunAtMs", computeNextRunAtMs(input.schedule, now))
               ELSE EmptyObj
      job == Spread(Spread([id |-> 1], input),
                    [createdAtMs |-> now, updatedAtMs |-> now, state |-> state])
  IN Ok(job, [jobs |-> Append(store.jobs, job)])

\* addJob, from `const now = Date.now()` on; id is randomUUID()
addJobOn(store, input, now, id) ==
  LET notDisabled == ~Has(input, "enabled") \/ input.enabled # FALSE
  IN IF notDisabled /\ ScheduleThrows(input.schedule)
     THEN Err("ScheduleError")
     ELSE
       LET computed ==
             IF notDisabled
             THEN PutOpt(EmptyObj, "nextRunAtMs",
                         computeNextRun([schedule |-> input.schedule], now))
             ELSE EmptyObj
           state == Spread(computed, IF Has(input, "state") THEN input.state ELSE EmptyObj)
           job == Spread(Spread([id |-> id], input),
                         [createdAtMs |-> now, updatedAtMs |-> now, state |-> state])
       IN Ok(job, [jobs |-> Append(store.jobs, job)])

\* `patch.payload.x ?? existing.x`, with x undefined when neither has it
Coalesce(o, k, p, existing) ==
  IF Has(p, k) THEN Put(o, k, p[k])
  ELSE IF Has(existing, k) THEN Put(o, k, existing[k])
  ELSE o

\* patchPayload that replaces the payload wholesale, whatever its kind
patchPayload_Wholesale(payload, p) ==
  CASE p.kind = "systemEvent" ->
         [kind |-> "systemEvent", text |-> IF Has(p, "text") THEN p.text ELSE ""]
    [] p.kind = "agentTurn" ->
         Coalesce([kind |-> "agentTurn",
                   message |-> IF Has(p, "message") THEN p.message ELSE ""],
                  "model", p, EmptyObj)
    [] OTHER -> payload

\* updateJob lines 234-257: the payload patch
patchPayload(payload, p) ==
  CASE p.kind = "systemEvent" ->
         [kind |-> "systemEvent",
          text |-> IF Has(p, "text") THEN p.text
                   ELSE IF payload.kind = "systemEvent" THEN payload.text ELSE ""]
    [] p.kind = "agentTurn" ->
         LET existing == IF payload.kind = "agentTurn" THEN payload ELSE EmptyObj
             message == IF Has(p, "message") THEN p.message
                        ELSE IF Has(existing, "message") THEN existing.message ELSE ""
         IN Coalesce([kind |-> "agentTurn", message |-> message], "model", p, existing)
    [] OTHER -> payload

\* updateJob lines 223-232: the plain fields of the patch. description,
\* sessionTarget, wakeMode, agentId and isolation are assigned by the same
\* statement as name and are stood for by it.
PlainFields == {"name", "enabled", "schedule", "deleteAfterRun"}

\* patchFields that assigns the name whether or not the patch has one
patchFields_AlwaysName(job, patch) ==
  [f \in DOMAIN job \cup (DOMAIN patch \cap PlainFields) |->
     IF f \in DOMAIN patch \cap PlainFields THEN patch[f]
     ELSE IF f = "name" THEN "" ELSE job[f]]

patchFields(job, patch) ==
  [f \in DOMAIN job \cup (DOMAIN patch \cap PlainFields) |->
     IF f \in DOMAIN patch \cap PlainFields THEN patch[f] ELSE job[f]]

\* updateJob lines 259-268: the state patch
StateFields ==
  {"nextRunAtMs", "runningAtMs", "lastRunAtMs", "lastStatus", "lastError", "lastDurationMs"}

\* patchState that assigns only the fields the state does not have yet
patchState_OnlyUnset(state, p) ==
  [f \in DOMAIN state \cup (DOMAIN p \cap StateFields) |->
     IF f \in DOMAIN state THEN state[f] ELSE p[f]]

\* patchState that drops the runningAtMs of the patch
patchState_NoRunningAt(state, p) ==
  [f \in DOMAIN state \cup (DOMAIN p \cap (StateFields \ {"runningAtMs"})) |->
     IF f \in DOMAIN p \cap (StateFields \ {"runningAtMs"}) THEN p[f] ELSE state[f]]

\* patchState that replaces the state by the patch's
patchState_Wholesale(state, p) == [f \in DOMAIN p \cap StateFields |-> p[f]]

patchState(state, p) ==
  [f \in DOMAIN state \cup (DOMAIN p \cap StateFields) |->
     IF f \in DOMAIN p \cap StateFields THEN p[f] ELSE state[f]]

\* recomputeNextRun from the time the job was created instead of the time `now`
recomputeNextRun_FromCreation(job, now) ==
  [job EXCEPT !.state = PutOpt(job.state, "nextRunAtMs", computeNextRun(job, job.createdAtMs))]

\* recomputeNextRun from the time the job was due instead of the time `now`
recomputeNextRun_FromTrigger(job, now) ==
  [job EXCEPT !.state =
     PutOpt(job.state, "nextRunAtMs",
            computeNextRun(job, IF Has(job.state, "nextRunAtMs")
                                THEN job.state.nextRunAtMs ELSE now))]

\* job.state.nextRunAtMs = computeNextRun(job, now)
recomputeNextRun(job, now) ==
  [job EXCEPT !.state = PutOpt(job.state, "nextRunAtMs", computeNextRun(job, now))]

\* withoutJob with the comparison inverted
withoutJob_Inverted(jobs, id) ==
  LET Keep(j) == j.id = id
  IN Filter(jobs, Keep)

\* store.jobs.filter((j) => j.id !== id)
withoutJob(jobs, id) ==
  LET Keep(j) == j.id # id
  IN Filter(jobs, Keep)

\* updateJob, from `store.jobs.findIndex` on
updateJobOn(store, id, patch, now) ==
  LET jobIndex == FindIndex(store.jobs, id)
  IN IF jobIndex = 0
     THEN Err("Job not found")
     ELSE
       LET job0 == store.jobs[jobIndex]
           job1 == patchFields(job0, patch)
           job2 == IF Has(patch, "payload")
                   THEN [job1 EXCEPT !.payload = patchPayload(job1.payload, patch.payload)]
                   ELSE job1
           job3 == IF Has(patch, "state")
                   THEN [job2 EXCEPT !.state = patchState(job2.state, patch.state)]
                   ELSE job2
           job4 == [job3 EXCEPT !.updatedAtMs = now]
           recompute == Truthy(job4, "enabled")
                          /\ (Has(patch, "schedule") \/ Has(patch, "enabled"))
       IN IF recompute /\ ScheduleThrows(job4.schedule)
          THEN Err("ScheduleError")
          ELSE
            LET job == IF recompute
                       THEN recomputeNextRun(job4, now)
                       ELSE IF ~Truthy(job4, "enabled")
                       THEN [job4 EXCEPT !.state = Del(job4.state, "nextRunAtMs")]
                       ELSE job4
            IN Ok(job, [jobs |-> [store.jobs EXCEPT ![jobIndex] = job]])

\* removeJob that saves whether or not a job was removed
removeJobOn_AlwaysSaves(store, id) ==
  LET jobs == withoutJob(store.jobs, id)
  IN Ok([removed |-> Len(jobs) < Len(store.jobs)], [jobs |-> jobs])

\* removeJob, from `const before = store.jobs.length` on
removeJobOn(store, id) ==
  LET jobs == withoutJob(store.jobs, id)
      removed == Len(jobs) < Len(store.jobs)
  IN IF removed
     THEN Ok([removed |-> TRUE], [jobs |-> jobs])
     ELSE OkNoSave([removed |-> FALSE])

\* markJobCompleted that leaves runningAtMs as it is
markJobCompletedOn_StaysRunning(store, id, result, now) ==
  LET jobIndex == FindIndex(store.jobs, id)
  IN IF jobIndex = 0
     THEN Err("Job not found")
     ELSE
       LET job0 == store.jobs[jobIndex]
           state1 == Put(Put(job0.state, "lastRunAtMs", now),
                         "lastStatus", result.status)
           state2 == IF Has(result, "error")
                     THEN Put(state1, "lastError", result.error)
                     ELSE Del(state1, "lastError")
           state3 == Put(state2, "lastDurationMs", result.durationMs)
           job1 == [job0 EXCEPT !.state = state3, !.updatedAtMs = now]
           isOneShot == job1.schedule.kind = "at"
       IN IF isOneShot /\ result.status = "ok"
          THEN IF Truthy(job1, "deleteAfterRun")
               THEN Ok(job1, [jobs |-> withoutJob(store.jobs, id)])
               ELSE LET job == [Put(job1, "enabled", FALSE)
                                  EXCEPT !.state = Del(job1.state, "nextRunAtMs")]
                    IN Ok(job, [jobs |-> [store.jobs EXCEPT ![jobIndex] = job]])
          ELSE IF Truthy(job1, "enabled")
          THEN IF ScheduleThrows(job1.schedule)
               THEN Err("ScheduleError")
               ELSE LET job == recomputeNextRun(job1, now)
                    IN Ok(job, [jobs |-> [store.jobs EXCEPT ![jobIndex] = job]])
          ELSE Ok(job1, [jobs |-> [store.jobs EXCEPT ![jobIndex] = job1]])

\* markJobCompleted, from `store.jobs.findIndex` on
markJobCompletedOn(store, id, result, now) ==
  LET jobIndex == FindIndex(store.jobs, id)
  IN IF jobIndex = 0
     THEN Err("Job not found")
     ELSE
       LET job0 == store.jobs[jobIndex]
           state1 == Put(Put(Del(job0.state, "runningAtMs"), "lastRunAtMs", now),
                         "lastStatus", result.status)
           state2 == IF Has(result, "error")
                     THEN Put(state1, "lastError", result.error)
                     ELSE Del(state1, "lastError")
           state3 == Put(state2, "lastDurationMs", result.durationMs)
           job1 == [job0 EXCEPT !.state = state3, !.updatedAtMs = now]
           isOneShot == job1.schedule.kind = "at"
       IN IF isOneShot /\ result.status = "ok"
          THEN IF Truthy(job1, "deleteAfterRun")
               THEN Ok(job1, [jobs |-> withoutJob(store.jobs, id)])
               ELSE LET job == [Put(job1, "enabled", FALSE)
                                  EXCEPT !.state = Del(job1.state, "nextRunAtMs")]
                    IN Ok(job, [jobs |-> [store.jobs EXCEPT ![jobIndex] = job]])
          ELSE IF Truthy(job1, "enabled")
          THEN IF ScheduleThrows(job1.schedule)
               THEN Err("ScheduleError")
               ELSE LET job == recomputeNextRun(job1, now)
                    IN Ok(job, [jobs |-> [store.jobs EXCEPT ![jobIndex] = job]])
          ELSE Ok(job1, [jobs |-> [store.jobs EXCEPT ![jobIndex] = job1]])

\* isDue without the test of runningAtMs
isDue_IgnoresRunning(j, now) ==
  /\ Truthy(j, "enabled")
  /\ Has(j.state, "nextRunAtMs")
  /\ now >= j.state.nextRunAtMs

\* getDueJobs lines 360-365: the filter's predicate
isDue(j, now) ==
  /\ Truthy(j, "enabled")
  /\ ~TruthyNum(j.state, "runningAtMs")
  /\ Has(j.state, "nextRunAtMs")
  /\ now >= j.state.nextRunAtMs

getDueJobsOn(store, now) ==
  LET Due(j) == isDue(j, now)
  IN OkNoSave(Filter(store.jobs, Due))

\* getJob, from `store.jobs.find` on
getJobOn(store, id) ==
  LET jobIndex == FindIndex(store.jobs, id)
  IN IF jobIndex = 0 THEN Err("Job not found") ELSE OkNoSave(store.jobs[jobIndex])

\* listJobs, from `const jobs =` on. The sort is by nextRunAtMs ?? 0 and is
\* stable: an insertion sort, as Array.prototype.sort leaves equal keys in order.
sortKey(j) == IF Has(j.state, "nextRunAtMs") THEN j.state.nextRunAtMs ELSE 0

RECURSIVE sortByNextRun(_)
sortByNextRun(jobs) ==
  IF Len(jobs) <= 1 THEN jobs
  ELSE LET rest == sortByNextRun(Tail(jobs))
           x == Head(jobs)
           Before(j) == sortKey(j) < sortKey(x)
           NotBefore(j) == ~Before(j)
       IN Filter(rest, Before) \o <<x>> \o Filter(rest, NotBefore)

\* listJobs that saves the array it sorted
listJobsOn_SavesSorted(store, includeDisabled) ==
  LET Enabled(j) == Truthy(j, "enabled")
      jobs == sortByNextRun(IF includeDisabled THEN store.jobs
                            ELSE Filter(store.jobs, Enabled))
  IN Ok(jobs, [jobs |-> jobs])

listJobsOn(store, includeDisabled) ==
  LET Enabled(j) == Truthy(j, "enabled")
  IN OkNoSave(sortByNextRun(IF includeDisabled THEN store.jobs
                            ELSE Filter(store.jobs, Enabled)))

\* The value of `nextWakeAtMs` when no enabled job has a next run.
null == -2

\* `enabledJobs.reduce((min, job) => ..., null)`: the jobs from left to right,
\* min starting at null; a job without a numeric nextRunAtMs leaves min as it is.
RECURSIVE reduceMin(_, _)
reduceMin(jobs, min) ==
  IF jobs = <<>> THEN min
  ELSE LET job == Head(jobs)
       IN reduceMin(Tail(jobs),
                    IF ~Has(job.state, "nextRunAtMs") THEN min
                    ELSE IF min = null THEN job.state.nextRunAtMs
                    ELSE IF job.state.nextRunAtMs < min THEN job.state.nextRunAtMs
                    ELSE min)

\* getStatus without the filter on `enabled`
getStatusOn_AllJobs(store) ==
  OkNoSave([enabled |-> TRUE,
            storePath |-> "jobs.json",
            jobs |-> Len(store.jobs),
            nextWakeAtMs |-> reduceMin(store.jobs, null)])

\* getStatus that keeps the first nextRunAtMs it meets
getStatusOn_First(store) ==
  LET Enabled(j) == Truthy(j, "enabled") /\ Has(j.state, "nextRunAtMs")
      enabledJobs == Filter(store.jobs, Enabled)
  IN OkNoSave([enabled |-> TRUE,
               storePath |-> "jobs.json",
               jobs |-> Len(store.jobs),
               nextWakeAtMs |-> IF enabledJobs = <<>> THEN null
                                ELSE Head(enabledJobs).state.nextRunAtMs])

\* getStatus, from `const enabledJobs =` on
getStatusOn(store) ==
  LET Enabled(j) == Truthy(j, "enabled")
      enabledJobs == Filter(store.jobs, Enabled)
  IN OkNoSave([enabled |-> TRUE,
               storePath |-> "jobs.json",
               jobs |-> Len(store.jobs),
               nextWakeAtMs |-> reduceMin(enabledJobs, null)])

\* The operation a request names, run on a loaded store at Date.now() = now.
Outcome(r, store, now, uuid) ==
  CASE r.op = "addJob" -> addJobOn(store, r.input, now, uuid)
    [] r.op \in {"updateJob", "markJobRunning"} -> updateJobOn(store, r.id, r.patch, now)
    [] r.op = "removeJob" -> removeJobOn(store, r.id)
    [] r.op = "markJobCompleted" -> markJobCompletedOn(store, r.id, r.result, now)
    [] r.op = "getDueJobs" -> getDueJobsOn(store, now)
    [] r.op = "getJob" -> getJobOn(store, r.id)
    [] r.op = "listJobs" -> listJobsOn(store, r.includeDisabled)
    [] r.op = "getStatus" -> getStatusOn(store)

\* ------------------------------------------------------------------ inputs
At(atMs) == [kind |-> "at", atMs |-> atMs]

Every(intervalMs, anchorMs) ==
  [kind |-> "every", intervalMs |-> intervalMs, anchorMs |-> anchorMs]

CronOf(expression) == [kind |-> "cron", expression |-> expression, timezone |-> "UTC"]

SystemEvent == [kind |-> "systemEvent", text |-> "hi"]

AgentTurn == [kind |-> "agentTurn", message |-> "go", model |-> "m1"]

BaseInput(schedule, payload) == [name |-> "job", schedule |-> schedule, payload |-> payload]

Input(schedule, enabled, deleteAfterRun) ==
  Spread(BaseInput(schedule, SystemEvent),
         [enabled |-> enabled, deleteAfterRun |-> deleteAfterRun])

\* What the callers of Spec pass to addJob: one-shot jobs of either
\* deleteAfterRun, recurring jobs, a job without `enabled`, a disabled job
\* whose input carries a state, and a malformed cron expression.
AddInputs ==
  {Input(At(2), TRUE, d) : d \in BOOLEAN}
  \cup {Input(s, TRUE, FALSE) : s \in {Every(1, 0), Every(2, 3), CronOf("*/2"), CronOf("bad")}}
  \cup {BaseInput(Every(2, 0), AgentTurn)}
  \cup {Spread(BaseInput(At(2), AgentTurn),
               [enabled |-> FALSE, state |-> [nextRunAtMs |-> 2]])}

PatchInputs == {[enabled |-> TRUE], [enabled |-> FALSE]}

ResultInputs ==
  {[status |-> "ok", durationMs |-> 1],
   [status |-> "error", error |-> "boom", durationMs |-> 1]}

Times == 1..MaxTime

Ids == 1..MaxIds

\* ------------------------------------------------------------------- state
VARIABLES
  disk,     \* the document at the store path: [jobs |-> <<job, ...>>]
  clock,    \* Date.now()
  nextId,   \* the next value of randomUUID()
  last,     \* the last operation that returned, when callers do not overlap: its
            \* request, its `now`, its result
  marked,   \* ids for which markJobRunning succeeded and markJobCompleted was not called since
  fired,    \* ids of the one-shot jobs that completed with status ok, their schedule not
            \* patched since
  pc,       \* per caller: "idle", or "loaded" between its loadCronStore and its saveCronStore
  req,      \* per caller: the request it is serving
  snap,     \* per caller: the store its loadCronStore returned
  todo,     \* per caller: the ids of its last getDueJobs it has not started yet
  exec,     \* per caller: the jobs it is executing (marked running, not yet completed)
  lost,     \* whether some save wrote something else than its operation makes of the
            \* document it replaced (which another caller saved after the operation's load)
  file,     \* the text of the document at the store path, where the store's reads and
            \* writes are modelled step by step (SpecStore); NoDocument elsewhere
  temp      \* the text of the temporary file saveCronStore writes before its rename

seq == <<disk, clock, nextId, last, marked, fired>>

conc == <<pc, req, snap, todo, exec, lost>>

files == <<file, temp>>

vars == <<disk, clock, nextId, last, marked, fired, pc, req, snap, todo, exec, lost,
          file, temp>>

\* The callers of the concurrent specification: two processes, each an
\* administrative command line or a poller.
Procs == {"p1", "p2"}

NoRequest == [op |-> "none"]

\* No file at the path.
NoDocument == [exists |-> FALSE]

EmptyStore == [jobs |-> <<>>]

\* The state before any call, the clock at `start`.
InitAt(start) ==
  /\ disk = EmptyStore
  /\ clock = start
  /\ nextId = 1
  /\ last = [req |-> NoRequest, ok |-> TRUE]
  /\ marked = {}
  /\ fired = {}
  /\ pc = [p \in Procs |-> "idle"]
  /\ req = [p \in Procs |-> NoRequest]
  /\ file = NoDocument
  /\ temp = NoDocument
  /\ snap = [p \in Procs |-> EmptyStore]
  /\ todo = [p \in Procs |-> <<>>]
  /\ exec = [p \in Procs |-> {}]
  /\ lost = FALSE

Init == InitAt(1)

Returned(r, now, out) ==
  [req |-> r, now |-> now, ok |-> out.ok, saved |-> out.save,
   data |-> IF out.ok THEN out.data ELSE out.error]

Marked(m, r, out) ==
  CASE r.op = "markJobRunning" /\ out.ok -> m \cup {r.id}
    [] r.op = "markJobCompleted" -> m \ {r.id}
    [] OTHER -> m

Fired(f, r, out) ==
  CASE r.op = "markJobCompleted" /\ out.ok /\ r.result.status = "ok"
         /\ out.data.schedule.kind = "at" -> f \cup {r.id}
    [] r.op = "updateJob" /\ out.ok /\ Has(r.patch, "schedule") -> f \ {r.id}
    [] OTHER -> f

\* Saved that leaves an empty collection behind when the operation failed
Saved_EmptyOnError(out, document) ==
  IF out.save THEN out.store ELSE IF out.ok THEN document ELSE [jobs |-> <<>>]

\* The document at the store path once an operation with outcome `out` returned.
Saved(out, document) == IF out.save THEN out.store ELSE document

\* One call, from its load to its return, with no other caller in between.
Perform(r, now) ==
  LET out == Outcome(r, disk, now, nextId)
  IN /\ disk' = Saved(out, disk)
     /\ clock' = now
     /\ nextId' = IF r.op = "addJob" THEN nextId + 1 ELSE nextId
     /\ last' = Returned(r, now, out)
     /\ marked' = Marked(marked, r, out)
     /\ fired' = Fired(fired, r, out)
     /\ UNCHANGED conc
     /\ UNCHANGED files

\* The clock advances to the next time of T.
Tick(T) ==
  \E t \in T :
    /\ t > clock
    /\ \A u \in T : ~(clock < u /\ u < t)
    /\ clock' = t
    /\ UNCHANGED <<disk, nextId, last, marked, fired>>
    /\ UNCHANGED conc
    /\ UNCHANGED files

addJob(Inputs, cap) ==
  \E input \in Inputs :
    /\ nextId <= MaxIds
    /\ Len(disk.jobs) < cap
    /\ Perform([op |-> "addJob", input |-> input], clock)

updateJob(Patches) ==
  \E id \in Ids, patch \in Patches :
    Perform([op |-> "updateJob", id |-> id, patch |-> patch], clock)

removeJob ==
  \E id \in Ids : Perform([op |-> "removeJob", id |-> id], clock)

\* Date.now() is read for the patch, then again by updateJob after its load.
markJobRunning(T) ==
  \E id \in Ids, now \in T :
    /\ clock <= now
    /\ now <= clock + MaxDelay
    /\ Perform([op |-> "markJobRunning", id |-> id,
                patch |-> [state |-> [runningAtMs |-> clock]]], now)

markJobCompleted(Results) ==
  \E id \in Ids, result \in Results :
    Perform([op |-> "markJobCompleted", id |-> id, result |-> result], clock)

getDueJobs == Perform([op |-> "getDueJobs"], clock)

getJob == \E id \in Ids : Perform([op |-> "getJob", id |-> id], clock)

listJobs ==
  \E includeDisabled \in BOOLEAN :
    Perform([op |-> "listJobs", includeDisabled |-> includeDisabled], clock)

Next ==
  \/ Tick(Times)
  \/ addJob(AddInputs, MaxJobs)
  \/ updateJob(PatchInputs)
  \/ removeJob
  \/ markJobRunning(Times)
  \/ markJobCompleted(ResultInputs)
  \/ getDueJobs
  \/ getJob
  \/ listJobs

Spec == Init /\ [][Next]_vars

\* ------------------------------------------------- a store of several jobs
\* addJob is not called while the store holds ManyMaxJobs jobs.
ManyMaxJobs == 2

\* A recurring job, a one-shot job, a disabled job and a job without `enabled`.
ManyAddInputs ==
  {Input(Every(1, 0), TRUE, FALSE), Input(At(2), TRUE, FALSE),
   Input(Every(2, 3), FALSE, FALSE), BaseInput(Every(1, 0), AgentTurn)}

ManyPatchInputs == {[enabled |-> FALSE]}

ManyResultInputs == {[status |-> "ok", durationMs |-> 1]}

NextMany ==
  \/ Tick(Times)
  \/ addJob(ManyAddInputs, ManyMaxJobs)
  \/ updateJob(ManyPatchInputs)
  \/ removeJob
  \/ markJobRunning(Times)
  \/ markJobCompleted(ManyResultInputs)
  \/ getDueJobs

SpecMany == Init /\ [][NextMany]_vars

\* ------------------------------------------------------ concurrent callers
\* Every operation awaits loadCronStore and, when it saves, saveCronStore;
\* nothing in local-ops.ts keeps another caller out in between. A call is two
\* steps here: the call with its load, and the rest with its save.
\* Date.now() runs from 1 to ConcMaxTime while callers overlap.
ConcMaxTime == 2
\* Number of addJob calls while callers overlap.
ConcMaxIds == 1

ConcTimes == 1..ConcMaxTime

ConcAddInputs == {Input(Every(2, 0), TRUE, FALSE)}

ConcPatchInputs == {[name |-> "renamed"], [enabled |-> FALSE]}

ConcResultInputs == {[status |-> "ok", durationMs |-> 1]}

\* Caller p calls the operation of request r, and its loadCronStore returns.
Call(p, r) ==
  /\ pc[p] = "idle"
  /\ pc' = [pc EXCEPT ![p] = "loaded"]
  /\ req' = [req EXCEPT ![p] = r]
  /\ snap' = [snap EXCEPT ![p] = disk]
  /\ UNCHANGED <<todo, exec, lost>>
  /\ UNCHANGED seq
  /\ UNCHANGED files

callAddJob(p, Inputs, maxIds) ==
  \E input \in Inputs :
    /\ nextId + Cardinality({q \in Procs : pc[q] = "loaded" /\ req[q].op = "addJob"}) <= maxIds
    /\ Len(disk.jobs) < MaxJobs
    /\ Call(p, [op |-> "addJob", input |-> input])

callUpdateJob(p) ==
  \E id \in Ids, patch \in ConcPatchInputs :
    Call(p, [op |-> "updateJob", id |-> id, patch |-> patch])

callRemoveJob(p) == \E id \in Ids : Call(p, [op |-> "removeJob", id |-> id])

\* The poller's protocol: `cron due`, then `cron run` on each job returned,
\* the execution, then `cron complete`.
pollDue(p) ==
  /\ todo[p] = <<>>
  /\ Call(p, [op |-> "getDueJobs"])

startJob(p) ==
  /\ todo[p] # <<>>
  /\ Call(p, [op |-> "markJobRunning", id |-> Head(todo[p]),
              patch |-> [state |-> [runningAtMs |-> clock]]])

completeJob(p, Results) ==
  \E id \in exec[p], result \in Results :
    Call(p, [op |-> "markJobCompleted", id |-> id, result |-> result])

RECURSIVE IdsOf(_)
IdsOf(jobs) == IF jobs = <<>> THEN <<>> ELSE <<Head(jobs).id>> \o IdsOf(Tail(jobs))

\* Caller p's operation runs from `const now = Date.now()` to its return.
Return(p) ==
  /\ pc[p] = "loaded"
  /\ LET r == req[p]
         out == Outcome(r, snap[p], clock, nextId)
     IN /\ disk' = Saved(out, disk)
        /\ nextId' = IF r.op = "addJob" THEN nextId + 1 ELSE nextId
        /\ marked' = Marked(marked, r, out)
        /\ fired' = Fired(fired, r, out)
        /\ todo' = CASE r.op = "getDueJobs" /\ out.ok -> [todo EXCEPT ![p] = IdsOf(out.data)]
                     [] r.op = "markJobRunning" -> [todo EXCEPT ![p] = Tail(todo[p])]
                     [] OTHER -> todo
        /\ exec' = CASE r.op = "markJobRunning" /\ out.ok ->
                          [exec EXCEPT ![p] = exec[p] \cup {r.id}]
                     [] r.op = "markJobCompleted" -> [exec EXCEPT ![p] = exec[p] \ {r.id}]
                     [] OTHER -> exec
        /\ lost' = (lost \/ (out.save /\ out.store # Saved(Outcome(r, disk, clock, nextId), disk)))
  /\ pc' = [pc EXCEPT ![p] = "idle"]
  /\ req' = [req EXCEPT ![p] = NoRequest]
  /\ snap' = [snap EXCEPT ![p] = EmptyStore]
  /\ UNCHANGED <<clock, last>>
  /\ UNCHANGED files

NextConc ==
  \/ Tick(ConcTimes)
  \/ \E p \in Procs : callAddJob(p, ConcAddInputs, ConcMaxIds)
  \/ \E p \in Procs : callUpdateJob(p)
  \/ \E p \in Procs : callRemoveJob(p)
  \/ \E p \in Procs : pollDue(p)
  \/ \E p \in Procs : startJob(p)
  \/ \E p \in Procs : completeJob(p, ConcResultInputs)
  \/ \E p \in Procs : Return(p)

SpecConc == Init /\ [][NextConc]_vars

\* ------------------------------------------------- concurrent addJob calls
\* Two callers that add and remove jobs; both may be between the load and the
\* save of an addJob at once.
NextConcAdd ==
  \/ Tick(ConcTimes)
  \/ \E p \in Procs : callAddJob(p, ConcAddInputs, MaxIds)
  \/ \E p \in Procs : callRemoveJob(p)
  \/ \E p \in Procs : Return(p)

SpecConcAdd == Init /\ [][NextConcAdd]_vars

\* -------------------------------------------------------------- Scenario A
\* One caller creates the job of the specification's Scenario A at t = 0 and
\* polls, runs and completes it at the scenario's times.
ScenarioTimes == {0, 60000, 60500, 120000}

ScenarioInputs == {Input(Every(60000, 0), TRUE, FALSE)}

ScenarioResults ==
  {[status |-> "ok", durationMs |-> 500],
   [status |-> "error", error |-> "boom", durationMs |-> 500]}

NextScenarioA ==
  \/ Tick(ScenarioTimes)
  \/ callAddJob("p1", ScenarioInputs, MaxIds)
  \/ pollDue("p1")
  \/ startJob("p1")
  \/ completeJob("p1", ScenarioResults)
  \/ Return("p1")

SpecScenarioA == InitAt(0) /\ [][NextScenarioA]_vars

\* ------------------------------------------------------ patches of all kinds
\* updateJob with every part of a patch: plain fields, a schedule (one of them
\* malformed), payloads of either kind with and without their sub-fields, and
\* a state. Date.now() runs from 1 to PatchMaxTime; addJob is not called while
\* the store holds PatchMaxJobs jobs.
PatchMaxTime == 2

PatchMaxJobs == 1

PatchTimes == 1..PatchMaxTime

PatchAddInputs ==
  {Input(Every(1, 0), TRUE, FALSE),
   Spread(BaseInput(Every(1, 0), AgentTurn), [enabled |-> FALSE])}

PatchPatchInputs ==
  {[name |-> "renamed"],
   [enabled |-> TRUE],
   [enabled |-> FALSE],
   [schedule |-> Every(2, 0)],
   [schedule |-> CronOf("bad")],
   [payload |-> [kind |-> "systemEvent"]],
   [payload |-> [kind |-> "systemEvent", text |-> "bye"]],
   [payload |-> [kind |-> "agentTurn", message |-> "stop"]],
   [payload |-> [kind |-> "agentTurn", model |-> "m2"]],
   [state |-> [runningAtMs |-> 1]]}

NextPatch ==
  \/ Tick(PatchTimes)
  \/ addJob(PatchAddInputs, PatchMaxJobs)
  \/ updateJob(PatchPatchInputs)
  \/ markJobRunning(PatchTimes)

SpecPatch == Init /\ [][NextPatch]_vars

\* ------------------------------------------- patches on a store of two jobs
\* updateJob with a patch of each part (plain fields, the schedule, the
\* payload, the state) on a store of up to FrameMaxJobs jobs.
FrameMaxJobs == 2

FramePatchInputs ==
  {[name |-> "renamed"],
   [enabled |-> FALSE],
   [schedule |-> Every(2, 0)],
   [payload |-> [kind |-> "agentTurn", message |-> "stop"]],
   [state |-> [lastStatus |-> "skipped"]]}

NextFrame ==
  \/ Tick(PatchTimes)
  \/ addJob(PatchAddInputs, FrameMaxJobs)
  \/ updateJob(FramePatchInputs)

SpecFrame == Init /\ [][NextFrame]_vars

\* ------------------------------------------ malformed inputs to addJob
\* What a caller passes to addJob when it does not validate: a well-formed
\* job, a malformed cron expression on an enabled and on a disabled job, and
\* an input without a payload. updateJob then enables or disables the job.
MalformedAddInputs ==
  {Input(Every(1, 0), TRUE, FALSE),
   Input(CronOf("bad"), TRUE, FALSE),
   Input(CronOf("bad"), FALSE, FALSE),
   [name |-> "job", enabled |-> TRUE, schedule |-> Every(1, 0)]}

NextMalformed ==
  \/ Tick(PatchTimes)
  \/ addJob(MalformedAddInputs, PatchMaxJobs)
  \/ updateJob(PatchInputs)
  \/ removeJob
  \/ markJobRunning(PatchTimes)
  \/ markJobCompleted(ResultInputs)

SpecMalformed == Init /\ [][NextMalformed]_vars

\* ------------------------------------------- failures of the store helpers
\* Every operation runs resolveCronStorePath, loadCronStore and saveCronStore
\* inside one try block. A helper may throw; the catch turns what was thrown
\* into { ok: false, error: String(err) }. A save that throws leaves the file
\* as it was.
Faults == {"none", "path", "load", "save"}

Throw(err) == [thrown |-> TRUE, ok |-> FALSE, error |-> err, save |-> FALSE]

\* The try block of an operation: the outcome, or what a helper threw.
Attempt(r, store, now, uuid, fault) ==
  IF fault = "path" THEN Throw("Error: path")
  ELSE IF fault = "load" THEN Throw("Error: load")
  ELSE LET out == Outcome(r, store, now, uuid)
       IN IF out.save /\ fault = "save" THEN Throw("Error: save") ELSE out

\* A catch block that throws again what it caught
Catch_Rethrows(out) == out

\* `catch (err) { return { ok: false, error: String(err) } }`
Catch(out) == IF Has(out, "thrown") THEN Err(out.error) ELSE out

\* What the caller sees: the tagged result, or an exception.
Observed(r, now, out) ==
  IF Has(out, "thrown")
  THEN [req |-> r, now |-> now, thrown |-> TRUE, data |-> out.error]
  ELSE Returned(r, now, out)

PerformWithFault(r, now, fault) ==
  LET out == Catch(Attempt(r, disk, now, nextId, fault))
  IN /\ disk' = Saved(out, disk)
     /\ clock' = now
     /\ nextId' = IF r.op = "addJob" THEN nextId + 1 ELSE nextId
     /\ last' = Observed(r, now, out)
     /\ marked' = Marked(marked, r, out)
     /\ fired' = Fired(fired, r, out)
     /\ UNCHANGED conc
     /\ UNCHANGED files

FaultAddInputs == {Input(Every(1, 0), TRUE, FALSE), Input(CronOf("bad"), TRUE, FALSE)}

\* Each operation of the surface, called while a helper may throw.
Faulty(r) == \E fault \in Faults : PerformWithFault(r, clock, fault)

addJobFaulty ==
  \E input \in FaultAddInputs :
    /\ nextId <= MaxIds
    /\ Len(disk.jobs) < PatchMaxJobs
    /\ Faulty([op |-> "addJob", input |-> input])

updateJobFaulty ==
  \E id \in Ids, patch \in PatchInputs :
    Faulty([op |-> "updateJob", id |-> id, patch |-> patch])

removeJobFaulty == \E id \in Ids : Faulty([op |-> "removeJob", id |-> id])

markJobRunningFaulty ==
  \E id \in Ids :
    Faulty([op |-> "markJobRunning", id |-> id,
            patch |-> [state |-> [runningAtMs |-> clock]]])

markJobCompletedFaulty ==
  \E id \in Ids, result \in ResultInputs :
    Faulty([op |-> "markJobCompleted", id |-> id, result |-> result])

getDueJobsFaulty == Faulty([op |-> "getDueJobs"])

getJobFaulty == \E id \in Ids : Faulty([op |-> "getJob", id |-> id])

listJobsFaulty ==
  \E includeDisabled \in BOOLEAN :
    Faulty([op |-> "listJobs", includeDisabled |-> includeDisabled])

getStatusFaulty == Faulty([op |-> "getStatus"])

NextFault ==
  \/ Tick(PatchTimes)
  \/ addJobFaulty
  \/ updateJobFaulty
  \/ removeJobFaulty
  \/ markJobRunningFaulty
  \/ markJobCompletedFaulty
  \/ getDueJobsFaulty
  \/ getJobFaulty
  \/ listJobsFaulty
  \/ getStatusFaulty

SpecFault == Init /\ [][NextFault]_vars

\* ------------------------------------------------ the store's document
\* store.js is not among the sources; loadCronStore and saveCronStore follow
\* the specification of the Job Store. The document is jobs.json: the text of
\* an object is the sequence of <<key, value>> of its properties, a nested
\* object (schedule, payload, state) being a text itself, and the text of the
\* collection is the texts of its jobs, closed by the final bracket. A text
\* cut short is not closed and does not parse.
NestedKeys == {"schedule", "payload", "state"}

RECURSIVE KeysOf(_)
KeysOf(S) ==
  IF S = {} THEN <<>>
  ELSE LET k == CHOOSE k \in S : TRUE IN <<k>> \o KeysOf(S \ {k})

\* JSON.stringify that leaves out a nested object without properties
stringifyObject_DropsEmpty(o) ==
  LET ks == KeysOf({k \in DOMAIN o : k \in NestedKeys => DOMAIN o[k] # {}})
  IN [i \in 1..Len(ks) |->
        <<ks[i], IF ks[i] \in NestedKeys
                 THEN LET n == o[ks[i]]
                          ns == KeysOf(DOMAIN n)
                      IN [j \in 1..Len(ns) |-> <<ns[j], n[ns[j]]>>]
                 ELSE o[ks[i]]>>]

\* JSON.stringify of a job: every property it has, nested objects included
stringifyObject(o) ==
  LET ks == KeysOf(DOMAIN o)
  IN [i \in 1..Len(ks) |->
        <<ks[i], IF ks[i] \in NestedKeys
                 THEN LET n == o[ks[i]]
                          ns == KeysOf(DOMAIN n)
                      IN [j \in 1..Len(ns) |-> <<ns[j], n[ns[j]]>>]
                 ELSE o[ks[i]]>>]

stringify(store) ==
  [exists |-> TRUE,
   jobs |-> [i \in 1..Len(store.jobs) |-> stringifyObject(store.jobs[i])],
   closed |-> TRUE]

\* The first n jobs of a text, the rest not written.
Truncated(text, n) == [text EXCEPT !.jobs = SubSeq(text.jobs, 1, n), !.closed = FALSE]

parseEntries(text) ==
  [k \in {text[i][1] : i \in 1..Len(text)} |->
     text[CHOOSE i \in 1..Len(text) : text[i][1] = k][2]]

\* JSON.parse of a job's text
parseObject(text) ==
  LET o == parseEntries(text)
  IN [k \in DOMAIN o |-> IF k \in NestedKeys THEN parseEntries(o[k]) ELSE o[k]]

\* load(): an empty collection if no document exists yet, IOError on a
\* document that does not parse, the collection otherwise.
loadCronStore(text) ==
  IF ~text.exists THEN EmptyStore
  ELSE IF ~text.closed THEN Throw("IOError")
  ELSE [jobs |-> [i \in 1..Len(text.jobs) |-> parseObject(text.jobs[i])]]

\* A write that goes to the document itself
writeFile_InPlace(fs, text) == [fs EXCEPT !.file = text]

\* save(): the text is written to the temporary location ...
writeFile(fs, text) == [fs EXCEPT !.temp = text]

\* ... and renamed in place.
rename(fs) ==
  IF fs.temp.exists THEN [file |-> fs.temp, temp |-> NoDocument] ELSE fs

\* An operation that takes a document it cannot load for an empty collection
OperateOn_EmptyOnThrow(r, text, now, uuid) ==
  LET loaded == loadCronStore(text)
  IN Outcome(r, IF Has(loaded, "thrown") THEN EmptyStore ELSE loaded, now, uuid)

\* The try block of an operation, from `await loadCronStore(path)` to the
\* collection it hands to saveCronStore: what the load throws ends the block.
OperateOn(r, text, now, uuid) ==
  LET loaded == loadCronStore(text)
  IN IF Has(loaded, "thrown") THEN loaded ELSE Outcome(r, loaded, now, uuid)

\* ----------------------------------------- operations on the document
\* One caller (writer) runs the mutating operations, its saveCronStore step by
\* step, and may crash at any point of the save; the other (reader) runs the
\* read-only operations at any time, without a lock. `disk` is the collection
\* of the last save that completed.
writer == "p1"

reader == "p2"

StoreMaxJobs == 1

StoreAddInputs ==
  {Input(At(2), TRUE, FALSE),
   Spread(BaseInput(Every(1, 0), AgentTurn), [enabled |-> TRUE]),
   Input(CronOf("*/2"), FALSE, FALSE)}

StoreWrites ==
  {[op |-> "addJob", input |-> input] : input \in StoreAddInputs}
  \cup {[op |-> "removeJob", id |-> id] : id \in Ids}
  \cup {[op |-> "markJobRunning", id |-> 1, patch |-> [state |-> [runningAtMs |-> t]]] :
          t \in PatchTimes}
  \cup {[op |-> "markJobCompleted", id |-> 1, result |-> result] : result \in ResultInputs}

StoreReads ==
  {[op |-> "getDueJobs"], [op |-> "getStatus"], [op |-> "getJob", id |-> 1],
   [op |-> "listJobs", includeDisabled |-> TRUE]}

\* What the caller sees, with the text its operation read.
ObservedOn(r, now, out, text) == Put(Observed(r, now, out), "read", text)

\* A read-only operation, or a mutating one that returns without saving.
returnNow(p, r, out) ==
  /\ last' = ObservedOn(r, clock, out, file)
  /\ UNCHANGED <<disk, clock, marked, fired, pc, req, snap, todo, exec, lost>>
  /\ UNCHANGED files

\* A mutating operation that reached `await saveCronStore(path, store)`.
startSave(p, r, out) ==
  /\ pc' = [pc EXCEPT ![p] = "saving"]
  /\ req' = [req EXCEPT ![p] = r]
  /\ snap' = [snap EXCEPT ![p] = [out |-> out, now |-> clock, read |-> file]]
  /\ UNCHANGED <<disk, clock, last, marked, fired, todo, exec, lost>>
  /\ UNCHANGED files

readCall ==
  \E r \in StoreReads :
    /\ pc[reader] = "idle"
    /\ returnNow(reader, r, Catch(OperateOn(r, file, clock, nextId)))
    /\ UNCHANGED nextId

writeCall ==
  \E r \in StoreWrites :
    /\ pc[writer] = "idle"
    /\ r.op = "addJob" => nextId <= MaxIds
    /\ r.op = "markJobRunning" => r.patch.state.runningAtMs = clock
    /\ nextId' = IF r.op = "addJob" THEN nextId + 1 ELSE nextId
    /\ LET out == Catch(OperateOn(r, file, clock, nextId))
       IN IF out.save
          THEN Len(out.store.jobs) <= StoreMaxJobs /\ startSave(writer, r, out)
          ELSE returnNow(writer, r, out)

\* saveCronStore has written the first n jobs.
writeChunk ==
  \E n \in 0..StoreMaxJobs :
    /\ pc[writer] = "saving"
    /\ n <= Len(snap[writer].out.store.jobs)
    /\ LET fs == writeFile([file |-> file, temp |-> temp],
                           Truncated(stringify(snap[writer].out.store), n))
       IN file' = fs.file /\ temp' = fs.temp
    /\ pc' = [pc EXCEPT ![writer] = "writing"]
    /\ UNCHANGED <<disk, clock, nextId, last, marked, fired, req, snap, todo, exec, lost>>

\* saveCronStore has written the whole text.
writeRest ==
  /\ pc[writer] = "writing"
  /\ LET fs == writeFile([file |-> file, temp |-> temp], stringify(snap[writer].out.store))
     IN file' = fs.file /\ temp' = fs.temp
  /\ pc' = [pc EXCEPT ![writer] = "written"]
  /\ UNCHANGED <<disk, clock, nextId, last, marked, fired, req, snap, todo, exec, lost>>

\* The rename, and the operation's return.
renameAndReturn ==
  /\ pc[writer] = "written"
  /\ LET fs == rename([file |-> file, temp |-> temp])
     IN file' = fs.file /\ temp' = fs.temp
  /\ disk' = snap[writer].out.store
  /\ last' = ObservedOn(req[writer], snap[writer].now, snap[writer].out, snap[writer].read)
  /\ marked' = Marked(marked, req[writer], snap[writer].out)
  /\ fired' = Fired(fired, req[writer], snap[writer].out)
  /\ pc' = [pc EXCEPT ![writer] = "idle"]
  /\ req' = [req EXCEPT ![writer] = NoRequest]
  /\ snap' = [snap EXCEPT ![writer] = EmptyStore]
  /\ UNCHANGED <<clock, nextId, todo, exec, lost>>

\* The writer's process dies during its save; what it wrote stays.
crash ==
  /\ pc[writer] \in {"saving", "writing", "written"}
  /\ pc' = [pc EXCEPT ![writer] = "idle"]
  /\ req' = [req EXCEPT ![writer] = NoRequest]
  /\ snap' = [snap EXCEPT ![writer] = EmptyStore]
  /\ UNCHANGED <<disk, clock, nextId, last, marked, fired, todo, exec, lost>>
  /\ UNCHANGED files

NextStore ==
  \/ Tick(PatchTimes)
  \/ readCall
  \/ writeCall
  \/ writeChunk
  \/ writeRest
  \/ renameAndReturn
  \/ crash

SpecStore == Init /\ [][NextStore]_vars

\* The document is damaged from outside while no operation runs: its text is
\* cut short.
corrupt ==
  \E n \in 0..StoreMaxJobs :
    /\ \A p \in Procs : pc[p] = "idle"
    /\ file.exists /\ file.closed
    /\ n <= Len(file.jobs)
    /\ file' = Truncated(file, n)
    /\ UNCHANGED <<disk, clock, nextId, last, marked, fired, temp>>
    /\ UNCHANGED conc

NextCorrupt ==
  \/ Tick(PatchTimes)
  \/ readCall
  \/ writeCall
  \/ writeChunk
  \/ writeRest
  \/ renameAndReturn
  \/ corrupt

SpecCorrupt == Init /\ [][NextCorrupt]_vars

\* ------------------------------------------------- status and due jobs
\* A store of up to StatusMaxJobs jobs, enabled and disabled, with and without
\* nextRunAtMs, on which getStatus and getDueJobs are called.
StatusMaxJobs == 2

StatusAddInputs ==
  {Input(Every(1, 0), TRUE, FALSE),
   Input(Every(2, 0), TRUE, FALSE),
   Input(At(2), TRUE, FALSE),
   BaseInput(Every(2, 0), AgentTurn),
   Spread(BaseInput(At(2), AgentTurn), [enabled |-> FALSE, state |-> [nextRunAtMs |-> 2]])}

getStatus == Perform([op |-> "getStatus"], clock)

NextStatus ==
  \/ Tick(Times)
  \/ addJob(StatusAddInputs, StatusMaxJobs)
  \/ updateJob(PatchInputs)
  \/ markJobRunning(Times)
  \/ getStatus
  \/ getDueJobs

SpecStatus == Init /\ [][NextStatus]_vars

\* The four operations that only read, on stores of up to two jobs that
\* addJob, markJobRunning and removeJob build.
NextRead ==
  \/ Tick(Times)
  \/ addJob(StatusAddInputs, StatusMaxJobs)
  \/ markJobRunning(Times)
  \/ removeJob
  \/ listJobs
  \/ getJob
  \/ getDueJobs
  \/ getStatus

SpecRead == Init /\ [][NextRead]_vars

\* ------------------------------------------------------------- fair poller
\* One caller creates jobs and then runs the poller's protocol for ever:
\* `cron due`, `cron run` on each job returned, `cron complete` on each job it
\* runs, with any status. Date.now() advances up to PollMaxTime. The poller is
\* fair: each of its steps that can be taken again and again is taken, an
\* operation called returns, and the clock moves on.
PollMaxTime == 4

PollMaxJobs == 2

PollTimes == 1..PollMaxTime

PollAddInputs ==
  {Input(Every(1, 0), TRUE, FALSE), Input(Every(2, 0), TRUE, FALSE),
   Input(Every(2, 1), TRUE, FALSE), Input(At(2), TRUE, FALSE)}

PollResults ==
  {[status |-> "ok", durationMs |-> 1],
   [status |-> "error", error |-> "boom", durationMs |-> 1],
   [status |-> "skipped", durationMs |-> 0]}

poller == "p1"

pollerAddJob ==
  \E input \in PollAddInputs :
    /\ nextId <= MaxIds
    /\ Len(disk.jobs) < PollMaxJobs
    /\ Call(poller, [op |-> "addJob", input |-> input])

NextPoller ==
  \/ Tick(PollTimes)
  \/ pollerAddJob
  \/ pollDue(poller)
  \/ startJob(poller)
  \/ completeJob(poller, PollResults)
  \/ Return(poller)

\* Caller p's pending operation returns: the only step that takes p from
\* "loaded" to "idle" is Return(p).
returns(p) == pc[p] = "loaded" /\ pc' = [pc EXCEPT ![p] = "idle"]

SpecPoller ==
  /\ Init
  /\ [][NextPoller]_vars
  /\ WF_vars(Tick(PollTimes))
  /\ WF_pc(returns(poller))
  /\ SF_vars(pollDue(poller))
  /\ SF_vars(startJob(poller))
  /\ SF_vars(completeJob(poller, PollResults))

\* ------------------------------------------------------------------ claims
\* The ids getDueJobs returns when it loads `store` and reads Date.now() = t.
DueIds(store, t) ==
  LET due == getDueJobsOn(store, t).data
  IN {due[i].id : i \in 1..Len(due)}

\* The times at or after the clock at which getDueJobs can be called.
Later == clock..(MaxTime + 1)

\* C1: once markRunning(id) has succeeded, no getDueJobs call at the same or a
\* later time returns job id until markCompleted(id) is called, whatever its
\* nextRunAtMs and whatever other operations run in between.
C1_RunningNeverDue ==
  \A id \in marked : \A t \in Later : id \notin DueIds(disk, t)

\* C2: the load-modify-save cycles of concurrent callers are serialized: once
\* every call has returned, no save has replaced another caller's update by
\* something the saving operation alone would not have made of it.
C2_NoLostUpdate ==
  (\A p \in Procs : pc[p] = "idle") => ~lost

\* C3: two pollers that follow the protocol never execute the same job at once.
C3_NoOverlappingExecution ==
  \A p, q \in Procs : p # q => exec[p] \cap exec[q] = {}

\* The stored job with this id, when there is one.
Stored(id) == disk.jobs[FindIndex(disk.jobs, id)]

IsStored(id) == FindIndex(disk.jobs, id) # 0

Completed == last.req.op = "markJobCompleted" /\ last.ok

OneShotOk ==
  Completed /\ last.req.result.status = "ok" /\ last.data.schedule.kind = "at"

\* C5: markCompleted with status ok on a one-shot job removes the job from the
\* store when deleteAfterRun is true (neither get nor list with
\* includeDisabled returns it); otherwise the job stays, disabled and with no
\* nextRunAtMs.
C5_OneShotOk ==
  OneShotOk =>
    IF Truthy(last.data, "deleteAfterRun")
    THEN /\ ~IsStored(last.req.id)
         /\ ~getJobOn(disk, last.req.id).ok
         /\ \A j \in {listJobsOn(disk, TRUE).data[i] : i \in 1..Len(disk.jobs)} :
              j.id # last.req.id
    ELSE /\ IsStored(last.req.id)
         /\ Has(Stored(last.req.id), "enabled")
         /\ Stored(last.req.id).enabled = FALSE
         /\ ~Has(Stored(last.req.id).state, "nextRunAtMs")

C5_Deleted ==
  /\ OneShotOk
  /\ Truthy(last.data, "deleteAfterRun")
  /\ ~IsStored(last.req.id)

\* C6: a one-shot job that completed with status ok never has nextRunAtMs set
\* again and is never due again, whatever update(enabled) calls follow.
C6_OneShotFiresOnce ==
  \A id \in fired :
    IsStored(id) =>
      /\ ~Has(Stored(id).state, "nextRunAtMs")
      /\ \A t \in Later : id \notin DueIds(disk, t)

\* markCompleted returned on a job that remains enabled and is not a one-shot
\* job completing ok.
Recomputed ==
  /\ Completed
  /\ Truthy(last.data, "enabled")
  /\ ~(last.data.schedule.kind = "at" /\ last.req.result.status = "ok")

Evaluated ==
  /\ last.ok
  /\ \/ /\ last.req.op = "addJob"
        /\ ~Has(last.req.input, "enabled") \/ last.req.input.enabled
        /\ ~Has(last.req.input, "state")
     \/ /\ last.req.op = "updateJob"
        /\ Has(last.req.patch, "enabled") \/ Has(last.req.patch, "schedule")
        /\ Truthy(last.data, "enabled")
     \/ Recomputed

\* The values anchorMs + k * intervalMs, k >= 0, up to past the last time.
Grid(schedule) ==
  {schedule.anchorMs + k * schedule.intervalMs : k \in 0..(MaxTime + 1)}

\* C8: for an `every` schedule and reference time r the Evaluator returns the
\* smallest anchorMs + k * intervalMs, k >= 0, that is strictly greater than r.
C8_EveryIsNextOnGrid ==
  (Evaluated /\ last.data.schedule.kind = "every") =>
    /\ Has(last.data.state, "nextRunAtMs")
    /\ last.data.state.nextRunAtMs > last.now
    /\ last.data.state.nextRunAtMs \in Grid(last.data.schedule)
    /\ \A g \in Grid(last.data.schedule) :
         g > last.now => last.data.state.nextRunAtMs <= g

\* the Evaluator returned a time of the grid after the anchor itself
C8_PastAnchor ==
  /\ Evaluated
  /\ last.data.schedule.kind = "every"
  /\ last.data.schedule.intervalMs > 1
  /\ last.data.state.nextRunAtMs > last.data.schedule.anchorMs

\* C10: a stored job whose enabled flag is false has no nextRunAtMs.
C10_DisabledHasNoNextRun ==
  \A i \in 1..Len(disk.jobs) :
    (Has(disk.jobs[i], "enabled") /\ ~disk.jobs[i].enabled)
      => ~Has(disk.jobs[i].state, "nextRunAtMs")

\* C4: getDueJobs at time t returns exactly the stored jobs that are enabled,
\* have runningAtMs unset, have nextRunAtMs set and have nextRunAtMs <= t.
C4_DueExactly ==
  last.req.op = "getDueJobs" =>
    /\ last.ok
    /\ {last.data[i] : i \in 1..Len(last.data)}
         = {j \in {disk.jobs[i] : i \in 1..Len(disk.jobs)} :
              /\ Has(j, "enabled") /\ j.enabled
              /\ ~Has(j.state, "runningAtMs")
              /\ Has(j.state, "nextRunAtMs")
              /\ j.state.nextRunAtMs <= last.now}

\* getDueJobs returned one of two stored jobs and left out a running job whose
\* nextRunAtMs has passed
C4_OneDueOneRunning ==
  /\ last.req.op = "getDueJobs"
  /\ Len(disk.jobs) = 2
  /\ Len(last.data) = 1
  /\ \E i \in 1..2 :
       /\ Has(disk.jobs[i].state, "runningAtMs")
       /\ Truthy(disk.jobs[i], "enabled")
       /\ Has(disk.jobs[i].state, "nextRunAtMs")
       /\ disk.jobs[i].state.nextRunAtMs <= last.now

StoredJobs == {disk.jobs[i] : i \in 1..Len(disk.jobs)}

\* Scenario A up to the completion: the job created at t = 0 has nextRunAtMs =
\* 60000; getDueJobs at t = 60000 includes it; markRunning at t = 60000 sets
\* runningAtMs = 60000 and getDueJobs then excludes it; markCompleted with status
\* ok at t = 60500 clears runningAtMs and sets lastStatus = ok.
ScenarioASteps ==
  \A j \in StoredJobs :
    /\ (j.createdAtMs = 0 /\ j.updatedAtMs = 0) =>
         /\ Has(j.state, "nextRunAtMs") /\ j.state.nextRunAtMs = 60000
         /\ clock = 60000 => j.id \in DueIds(disk, 60000)
    /\ (j.createdAtMs = 0 /\ j.id \in exec["p1"] /\ clock = 60000) =>
         /\ Has(j.state, "runningAtMs") /\ j.state.runningAtMs = 60000
         /\ j.id \notin DueIds(disk, 60000)
    /\ (j.createdAtMs = 0 /\ j.updatedAtMs = 60500 /\ j.id \notin exec["p1"]
          /\ Has(j.state, "lastStatus") /\ j.state.lastStatus = "ok") =>
         /\ ~Has(j.state, "runningAtMs")
         /\ j.state.lastRunAtMs = 60500

\* The scenario's job after its completion with status ok at t = 60500.
ScenarioACompleted(j) ==
  /\ j.createdAtMs = 0
  /\ j.updatedAtMs = 60500
  /\ j.id \notin exec["p1"]
  /\ Has(j.state, "lastStatus")
  /\ j.state.lastStatus = "ok"

\* C9, as claimed: Scenario A holds as a trace, and the completion at t = 60500
\* sets nextRunAtMs = 120500.
C9_ScenarioA ==
  /\ ScenarioASteps
  /\ \A j \in StoredJobs :
       ScenarioACompleted(j) =>
         Has(j.state, "nextRunAtMs") /\ j.state.nextRunAtMs = 120500

\* C9, amended: Scenario A holds as a trace, and the completion at t = 60500
\* sets nextRunAtMs = 120000, the next time of the grid 0 + k * 60000.
C9_ScenarioAOnGrid ==
  /\ ScenarioASteps
  /\ \A j \in StoredJobs :
       ScenarioACompleted(j) =>
         Has(j.state, "nextRunAtMs") /\ j.state.nextRunAtMs = 120000

C9_ScenarioARan ==
  \E j \in StoredJobs :
    /\ ScenarioACompleted(j)
    /\ j.state.lastRunAtMs = 60500
    /\ j.state.lastDurationMs = 500
    /\ j.state.nextRunAtMs = 120000

\* A step that is a call of an operation: the operation read the clock of the
\* new state (when the clock alone advances, the last call is older than it).
IsCall == Has(last', "now") /\ last'.now = clock'

\* C11: a stored job has runningAtMs set only if markRunning was called on it and
\* markCompleted was not called on it since; create and update never set it.
C11_RunningOnlyWhenMarked ==
  \A i \in 1..Len(disk.jobs) :
    Has(disk.jobs[i].state, "runningAtMs") => disk.jobs[i].id \in marked

\* C12: markRunning gives a job a runningAtMs only if the job is enabled, has
\* nextRunAtMs set and nextRunAtMs <= now.
C12_RunningOnlyWhenDue ==
  (last.req.op = "markJobRunning" /\ last.ok /\ Has(last.data.state, "runningAtMs")) =>
    /\ Truthy(last.data, "enabled")
    /\ Has(last.data.state, "nextRunAtMs")
    /\ last.data.state.nextRunAtMs <= last.now

\* C13: no two stored jobs share an id, create assigns an id that no stored job
\* has, and the id of a stored job never changes.
C13_IdsUniqueAndFixed ==
  [][/\ \A i, k \in 1..Len(disk'.jobs) : disk'.jobs[i].id = disk'.jobs[k].id => i = k
     /\ (IsCall /\ last'.req.op = "addJob" /\ last'.ok) =>
          /\ \A i \in 1..Len(disk.jobs) : disk.jobs[i].id # last'.data.id
          /\ disk'.jobs = Append(disk.jobs, last'.data)
     /\ (IsCall /\ Len(disk'.jobs) = Len(disk.jobs)) =>
          \A i \in 1..Len(disk.jobs) : disk'.jobs[i].id = disk.jobs[i].id]_vars

\* addJob returned the second of two stored jobs
C13_TwoJobs ==
  /\ last.req.op = "addJob"
  /\ last.ok
  /\ Len(disk.jobs) = 2
  /\ disk.jobs[2] = last.data
  /\ disk.jobs[1].id # disk.jobs[2].id

\* The request destroys job j: remove(id), or markCompleted with status ok on a
\* one-shot job with deleteAfterRun.
Destroys(r, j) ==
  \/ r.op = "removeJob" /\ r.id = j.id
  \/ /\ r.op = "markJobCompleted"
     /\ r.id = j.id
     /\ r.result.status = "ok"
     /\ j.schedule.kind = "at"
     /\ Truthy(j, "deleteAfterRun")

\* C14: a stored job stays in the store until remove(id) is called on it or it
\* is a one-shot job with deleteAfterRun that completes with status ok; no other
\* operation and no interleaving of callers makes it disappear.
C14_PresentUntilDestroyed ==
  [][\A i \in 1..Len(disk.jobs) :
       FindIndex(disk'.jobs, disk.jobs[i].id) = 0 =>
         \/ IsCall /\ Destroys(last'.req, disk.jobs[i])
         \/ \E p \in Procs :
              pc[p] = "loaded" /\ pc'[p] = "idle" /\ Destroys(req[p], disk.jobs[i])]_vars

\* The job with this id in a store that holds it.
JobOf(store, id) == store.jobs[FindIndex(store.jobs, id)]

\* A step that is a successful updateJob call.
Updated == IsCall /\ last'.req.op = "updateJob" /\ last'.ok

\* C15: update(id, {enabled: false}) clears nextRunAtMs and leaves the schedule
\* as it was; update(id, {enabled: true}) at time t sets nextRunAtMs to the
\* Evaluator's result at t, whatever the creation time and the earlier
\* nextRunAtMs.
C15_DisableClearsEnableRecomputes ==
  [][(Updated /\ Has(last'.req.patch, "enabled") /\ ~Has(last'.req.patch, "schedule")) =>
       LET old == JobOf(disk, last'.req.id)
           new == JobOf(disk', last'.req.id)
           next == computeNextRunAtMs(old.schedule, last'.now)
       IN /\ new = last'.data
          /\ new.schedule = old.schedule
          /\ new.enabled = last'.req.patch.enabled
          /\ IF last'.req.patch.enabled /\ next # undefined
             THEN Has(new.state, "nextRunAtMs") /\ new.state.nextRunAtMs = next
             ELSE ~Has(new.state, "nextRunAtMs")]_vars

\* a job was enabled after the first time of its schedule had passed
C15_EnabledLater ==
  /\ last.req.op = "updateJob"
  /\ last.ok
  /\ last.req.patch = [enabled |-> TRUE]
  /\ last.data.schedule.kind = "every"
  /\ last.data.createdAtMs + last.data.schedule.intervalMs < last.now
  /\ last.data.state.nextRunAtMs > last.now

\* Objects a and b agree on property k: both lack it or both have the same value.
SameField(a, b, k) == (Has(a, k) <=> Has(b, k)) /\ (Has(a, k) => a[k] = b[k])

PatchedState(p) == IF Has(p, "state") THEN p.state ELSE EmptyObj

\* C16: update(id, patch) changes only the fields the patch names, updatedAtMs,
\* and nextRunAtMs by the rule (recomputed when the job is enabled and the patch
\* has schedule or enabled, cleared when the job is not enabled, else as the
\* patch or the job had it); every other field and every other job is unchanged.
C16_UpdateFrame ==
  [][Updated =>
       LET p == last'.req.patch
           at == FindIndex(disk.jobs, last'.req.id)
           old == disk.jobs[at]
           new == disk'.jobs[at]
       IN /\ Len(disk'.jobs) = Len(disk.jobs)
          /\ \A i \in 1..Len(disk.jobs) : i # at => disk'.jobs[i] = disk.jobs[i]
          /\ new = last'.data
          /\ new.updatedAtMs = last'.now
          /\ \A f \in (DOMAIN old \cup DOMAIN new) \ {"updatedAtMs", "state", "payload"} :
               IF Has(p, f) THEN Has(new, f) /\ new[f] = p[f] ELSE SameField(old, new, f)
          /\ ~Has(p, "payload") => new.payload = old.payload
          /\ \A g \in (DOMAIN old.state \cup DOMAIN new.state) \ {"nextRunAtMs"} :
               IF Has(PatchedState(p), g)
               THEN Has(new.state, g) /\ new.state[g] = p.state[g]
               ELSE SameField(old.state, new.state, g)
          /\ IF Truthy(new, "enabled") /\ (Has(p, "schedule") \/ Has(p, "enabled"))
             THEN LET next == computeNextRunAtMs(new.schedule, last'.now)
                  IN IF next = undefined
                     THEN ~Has(new.state, "nextRunAtMs")
                     ELSE Has(new.state, "nextRunAtMs") /\ new.state.nextRunAtMs = next
             ELSE IF ~Truthy(new, "enabled")
             THEN ~Has(new.state, "nextRunAtMs")
             ELSE IF Has(PatchedState(p), "nextRunAtMs")
             THEN Has(new.state, "nextRunAtMs")
                    /\ new.state.nextRunAtMs = p.state.nextRunAtMs
             ELSE SameField(old.state, new.state, "nextRunAtMs")]_vars

\* an enabled job with a nextRunAtMs was renamed, later than it was created,
\* in a store of two jobs
C16_RenamedAmongTwo ==
  /\ last.req.op = "updateJob"
  /\ last.ok
  /\ last.req.patch = [name |-> "renamed"]
  /\ Len(disk.jobs) = 2
  /\ Truthy(last.data, "enabled")
  /\ Has(last.data.state, "nextRunAtMs")
  /\ last.data.createdAtMs < last.now
  /\ \E i \in 1..2 : disk.jobs[i].id # last.req.id /\ disk.jobs[i].name = "job"

\* A step that is a successful updateJob call with a payload patch.
PayloadPatched == Updated /\ Has(last'.req.patch, "payload")

\* The sub-fields a payload of either kind must have.
RequiredSubFields == {"text", "message"}

\* C17, as claimed: when the patch's kind is the stored payload's kind, every
\* sub-field the patch does not specify keeps its stored value; when the kind
\* differs, the payload contains only what the patch supplies.
C17_PayloadPatch ==
  [][PayloadPatched =>
       LET q == last'.req.patch.payload
           old == JobOf(disk, last'.req.id).payload
           new == JobOf(disk', last'.req.id).payload
       IN /\ \A k \in DOMAIN q : Has(new, k) /\ new[k] = q[k]
          /\ IF q.kind = old.kind
             THEN /\ DOMAIN new = DOMAIN old \cup DOMAIN q
                  /\ \A k \in DOMAIN old \ DOMAIN q : new[k] = old[k]
             ELSE new = q]_vars

\* C17, amended: when the kind differs, the payload contains what the patch
\* supplies, and an empty text or message when the patch supplies none; no
\* sub-field value of the old payload survives.
C17_PayloadPatchWithDefaults ==
  [][PayloadPatched =>
       LET q == last'.req.patch.payload
           old == JobOf(disk, last'.req.id).payload
           new == JobOf(disk', last'.req.id).payload
       IN /\ \A k \in DOMAIN q : Has(new, k) /\ new[k] = q[k]
          /\ IF q.kind = old.kind
             THEN /\ DOMAIN new = DOMAIN old \cup DOMAIN q
                  /\ \A k \in DOMAIN old \ DOMAIN q : new[k] = old[k]
             ELSE /\ DOMAIN new \ DOMAIN q \subseteq RequiredSubFields \ DOMAIN old
                  /\ \A k \in DOMAIN new \ DOMAIN q : new[k] = ""]_vars

\* an agentTurn patch without a message replaced a systemEvent payload
C17_KindReplaced ==
  /\ last.req.op = "updateJob"
  /\ last.ok
  /\ last.req.patch = [payload |-> [kind |-> "agentTurn", model |-> "m2"]]
  /\ last.data.payload = [kind |-> "agentTurn", message |-> "", model |-> "m2"]

\* C18: when update(id, patch) returns an error result, the persisted
\* collection is exactly what it was before the call.
C18_FailedUpdateChangesNothing ==
  [][(IsCall /\ last'.req.op = "updateJob" /\ ~last'.ok) => disk' = disk]_vars

\* update failed on a stored job because the Evaluator rejected its schedule
C18_ScheduleRejected ==
  /\ last.req.op = "updateJob"
  /\ ~last.ok
  /\ last.data = "ScheduleError"
  /\ FindIndex(disk.jobs, last.req.id) # 0
  /\ JobOf(disk, last.req.id).schedule.kind = "every"

\* The ids of the stored jobs.
StoredIds == {disk.jobs[i].id : i \in 1..Len(disk.jobs)}

\* C19: update, markRunning and markCompleted on an id that is not in the store
\* return a not-found error result, perform no save and leave the persisted
\* collection unchanged.
C19_NotFoundChangesNothing ==
  [][(/\ IsCall
      /\ last'.req.op \in {"updateJob", "markJobRunning", "markJobCompleted"}
      /\ last'.req.id \notin StoredIds) =>
       /\ ~last'.ok
       /\ last'.data = "Job not found"
       /\ ~last'.saved
       /\ disk' = disk]_vars

\* markCompleted was called with an id that is not in a store of one job
C19_UnknownId ==
  /\ last.req.op = "markJobCompleted"
  /\ ~last.ok
  /\ last.data = "Job not found"
  /\ Len(disk.jobs) = 1
  /\ last.req.id \notin StoredIds

\* C20: remove(id) returns removed = true exactly when a job with that id was
\* stored; that job is then absent and every other job unchanged. Otherwise it
\* returns removed = false, performs no save and leaves the collection as it was.
C20_RemoveExactly ==
  [][(IsCall /\ last'.req.op = "removeJob") =>
       LET Other(j) == j.id # last'.req.id
       IN /\ last'.ok
          /\ last'.data.removed = (last'.req.id \in StoredIds)
          /\ disk'.jobs = SelectSeq(disk.jobs, Other)
          /\ last'.saved = last'.data.removed
          /\ ~last'.data.removed => disk' = disk]_vars

\* remove took one of two stored jobs away
C20_RemovedOneOfTwo ==
  /\ last.req.op = "removeJob"
  /\ last.ok
  /\ last.data.removed
  /\ Len(disk.jobs) = 1
  /\ disk.jobs[1].id # last.req.id

\* C21: markRunning on a job that is already running succeeds and only
\* refreshes runningAtMs (and updatedAtMs): the job stays running and its other
\* fields are as they were.
C21_MarkRunningIdempotent ==
  [][(/\ IsCall
      /\ last'.req.op = "markJobRunning"
      /\ last'.req.id \in StoredIds
      /\ Has(JobOf(disk, last'.req.id).state, "runningAtMs")) =>
       LET old == JobOf(disk, last'.req.id)
           new == JobOf(disk', last'.req.id)
       IN /\ last'.ok
          /\ new = last'.data
          /\ Has(new.state, "runningAtMs")
          /\ new.state.runningAtMs >= clock
          /\ new.state.runningAtMs <= last'.now
          /\ new.state.runningAtMs >= old.state.runningAtMs
          /\ \A f \in (DOMAIN old \cup DOMAIN new) \ {"updatedAtMs", "state"} :
               SameField(old, new, f)
          /\ \A g \in (DOMAIN old.state \cup DOMAIN new.state) \ {"runningAtMs"} :
               SameField(old.state, new.state, g)]_vars

\* markRunning returned on a running job whose run time had passed before the
\* time of the call
C21_MarkedAgain ==
  /\ last.req.op = "markJobRunning"
  /\ last.ok
  /\ last.req.id \in marked
  /\ Truthy(last.data, "enabled")
  /\ Has(last.data.state, "nextRunAtMs")
  /\ last.data.state.nextRunAtMs < last.data.state.runningAtMs
  /\ last.data.state.runningAtMs = MaxTime

\* C22: markCompleted(id, {status, error, durationMs}) at time now on a stored
\* job that the call does not delete leaves runningAtMs unset and sets
\* lastRunAtMs = now, lastStatus = status, lastError = error (unset when the
\* result has none) and lastDurationMs = durationMs.
C22_CompletionRecorded ==
  [][(/\ IsCall
      /\ last'.req.op = "markJobCompleted"
      /\ last'.req.id \in StoredIds
      /\ FindIndex(disk'.jobs, last'.req.id) # 0) =>
       LET new == JobOf(disk', last'.req.id)
           result == last'.req.result
       IN /\ last'.ok
          /\ new = last'.data
          /\ ~Has(new.state, "runningAtMs")
          /\ Has(new.state, "lastRunAtMs") /\ new.state.lastRunAtMs = last'.now
          /\ Has(new.state, "lastStatus") /\ new.state.lastStatus = result.status
          /\ IF Has(result, "error")
             THEN Has(new.state, "lastError") /\ new.state.lastError = result.error
             ELSE ~Has(new.state, "lastError")
          /\ Has(new.state, "lastDurationMs")
          /\ new.state.lastDurationMs = result.durationMs]_vars

\* a recurring job created at the first time completed with status ok at the
\* last time and holds no lastError
C22_ErrorOverwritten ==
  /\ Completed
  /\ IsStored(last.req.id)
  /\ last.req.result.status = "ok"
  /\ ~Has(Stored(last.req.id).state, "lastError")
  /\ Stored(last.req.id).schedule.kind = "every"
  /\ Stored(last.req.id).state.lastRunAtMs = MaxTime
  /\ Stored(last.req.id).createdAtMs = 1

\* The jobs a list call returns.
Listed(includeDisabled) ==
  LET jobs == listJobsOn(disk, includeDisabled).data
  IN {jobs[i] : i \in 1..Len(jobs)}

\* C23: create at time now returns a persisted job with createdAtMs =
\* updatedAtMs = now; its nextRunAtMs is the Evaluator's result at now when
\* enabled is omitted or true, and unset when enabled is false; a following get
\* or list returns the job.
C23_CreatedJob ==
  (last.req.op = "addJob" /\ last.ok) =>
    LET job == last.data
        input == last.req.input
        next == computeNextRunAtMs(input.schedule, last.now)
        asEnabled == ~Has(input, "enabled") \/ input.enabled
    IN /\ job.createdAtMs = last.now
       /\ job.updatedAtMs = last.now
       /\ IF asEnabled /\ next # undefined
          THEN Has(job.state, "nextRunAtMs") /\ job.state.nextRunAtMs = next
          ELSE ~Has(job.state, "nextRunAtMs")
       /\ getJobOn(disk, job.id).ok
       /\ getJobOn(disk, job.id).data = job
       /\ job \in Listed(TRUE)
       /\ asEnabled => job \in Listed(FALSE)

\* create, or update with enabled: true, returned a one-shot job.
OneShotScheduled ==
  /\ last.ok
  /\ \/ last.req.op = "addJob"
     \/ last.req.op = "updateJob" /\ last.req.patch = [enabled |-> TRUE]
  /\ last.data.schedule.kind = "at"

\* C24: a one-shot job created enabled while atMs is after now has nextRunAtMs =
\* atMs; one created or re-enabled when atMs <= now has no nextRunAtMs and is
\* not due at any later time.
C24_OneShotNextRun ==
  OneShotScheduled =>
    IF last.data.schedule.atMs > last.now
    THEN Truthy(last.data, "enabled") =>
           /\ Has(last.data.state, "nextRunAtMs")
           /\ last.data.state.nextRunAtMs = last.data.schedule.atMs
    ELSE /\ ~Has(last.data.state, "nextRunAtMs")
         /\ \A t \in Later : last.data.id \notin DueIds(disk, t)

\* A job, or an input to addJob, has a schedule the Evaluator accepts and a
\* payload of a known kind with its required field.
WellFormed(j) ==
  /\ Has(j, "schedule")
  /\ ~ScheduleThrows(j.schedule)
  /\ Has(j, "payload")
  /\ Has(j.payload, "kind")
  /\ j.payload.kind \in {"systemEvent", "agentTurn"}
  /\ Has(j.payload, IF j.payload.kind = "systemEvent" THEN "text" ELSE "message")

\* C25: addJob of an input whose schedule or payload is missing or malformed
\* returns an error and saves nothing, and every stored job has a well-formed
\* schedule and payload.
C25_CreateValidates ==
  /\ (last.req.op = "addJob" /\ ~WellFormed(last.req.input)) =>
       ~last.ok /\ ~last.saved
  /\ \A i \in 1..Len(disk.jobs) : WellFormed(disk.jobs[i])

\* computeNextRunAtMs threw while the returned operation computed a next run.
EvaluatorThrew == ~last.ok /\ last.data = "ScheduleError"

\* C26: when the Evaluator throws in addJob, updateJob or markJobCompleted, the
\* rest of the operation is stored and the job has no nextRunAtMs: the created
\* job is in the store, the updated job carries the patch, and the completed job
\* has its last-run fields and no runningAtMs.
C26_NonSchedulable ==
  EvaluatorThrew =>
    CASE last.req.op = "addJob" ->
           \E i \in 1..Len(disk.jobs) :
             /\ disk.jobs[i].createdAtMs = last.now
             /\ disk.jobs[i].schedule = last.req.input.schedule
             /\ ~Has(disk.jobs[i].state, "nextRunAtMs")
      [] last.req.op \in {"updateJob", "markJobRunning"} ->
           LET job == JobOf(disk, last.req.id)
           IN /\ job.updatedAtMs = last.now
              /\ \A k \in PlainFields : Has(last.req.patch, k) =>
                   Has(job, k) /\ job[k] = last.req.patch[k]
              /\ ~Has(job.state, "nextRunAtMs")
      [] last.req.op = "markJobCompleted" ->
           LET job == JobOf(disk, last.req.id)
           IN /\ ~Has(job.state, "runningAtMs")
              /\ Has(job.state, "lastRunAtMs")
              /\ job.state.lastRunAtMs = last.now
              /\ ~Has(job.state, "nextRunAtMs")
      [] OTHER -> TRUE

\* C27: whatever a store helper or the Evaluator throws, the caller of any
\* operation gets a result tagged ok: true with data or ok: false with an error
\* string, and never an exception.
C27_AlwaysTagged ==
  last.req.op # "none" =>
    /\ ~Has(last, "thrown")
    /\ Has(last, "ok")
    /\ last.ok \in BOOLEAN
    /\ Has(last, "data")

\* C27 witness: saveCronStore threw in markJobCompleted and the caller got an
\* error result, with the job still marked running in the file.
C27_SaveFailedTagged ==
  /\ last.req.op = "markJobCompleted"
  /\ ~Has(last, "thrown")
  /\ ~last.ok
  /\ last.data = "Error: save"
  /\ Has(JobOf(disk, last.req.id).state, "runningAtMs")

\* C28: the timestamps one operation writes are one clock reading: createdAtMs
\* and updatedAtMs after addJob, runningAtMs and updatedAtMs after
\* markJobRunning, lastRunAtMs and updatedAtMs after markJobCompleted.
C28_OneClockReading ==
  last.ok =>
    CASE last.req.op = "addJob" -> last.data.createdAtMs = last.data.updatedAtMs
      [] last.req.op = "markJobRunning" ->
           last.data.state.runningAtMs = last.data.updatedAtMs
      [] last.req.op = "markJobCompleted" ->
           last.data.state.lastRunAtMs = last.data.updatedAtMs
      [] OTHER -> TRUE

\* C29: after markJobCompleted with status error on a job that stays enabled,
\* of any schedule kind, the job has no runningAtMs and has a nextRunAtMs, and
\* getDueJobs returns it once the clock reaches that time.
C29_ErrorCompletionIdle ==
  (/\ last.req.op = "markJobCompleted"
   /\ last.ok
   /\ last.req.result.status = "error"
   /\ Truthy(last.data, "enabled")) =>
    LET job == JobOf(disk, last.req.id)
    IN /\ ~Has(job.state, "runningAtMs")
       /\ Has(job.state, "nextRunAtMs")
       /\ job.id \in DueIds(disk, job.state.nextRunAtMs)

\* The operations that save the store.
Mutating == {"addJob", "updateJob", "removeJob", "markJobRunning", "markJobCompleted"}

\* C30: mutating operations exclude each other from load to save: at most one
\* caller is between the load and the save of a mutating operation.
C30_ExclusiveLock ==
  Cardinality({p \in Procs : pc[p] = "loaded" /\ req[p].op \in Mutating}) <= 1

ReadOnly == {"listJobs", "getJob", "getDueJobs", "getStatus"}

\* C32: at every instant, also during a save and after a crash in it, the
\* document at the store path is complete and is the collection of the last
\* save that completed; a reader never fails to load it and never reads a text
\* that is not closed.
C32_AtomicSave ==
  /\ IF file.exists
     THEN file.closed /\ loadCronStore(file) = disk
     ELSE disk = EmptyStore
  /\ (last.req.op \in ReadOnly) =>
       /\ last.read.exists => last.read.closed
       /\ ~last.ok => last.data # "IOError"

\* C32 witness: the writer crashed after writing part of the temporary file,
\* and the reader then read the previous collection from the document.
C32_ReadAfterCrash ==
  /\ pc[writer] = "idle"
  /\ temp.exists /\ ~temp.closed
  /\ file.exists /\ Len(file.jobs) = 1
  /\ last.req.op = "getStatus"
  /\ last.ok
  /\ last.data.jobs = 1
  /\ last.read = file

\* A text that exists and does not parse.
Corrupted(text) == text.exists /\ ~text.closed

\* C33: an operation that loads a corrupted document returns an IOError result
\* and saves nothing, and while the document is corrupted no operation is
\* saving a collection made from it.
C33_CorruptIsError ==
  /\ (last.req.op # "none" /\ Corrupted(last.read)) =>
       ~last.ok /\ last.data = "IOError" /\ ~last.saved
  /\ Corrupted(file) => pc[writer] = "idle"

\* C33 witness: addJob on a corrupted document that held a job returned an
\* error, and the document is as it was.
C33_CreateOnCorrupted ==
  /\ last.req.op = "addJob"
  /\ Corrupted(last.read)
  /\ ~last.ok
  /\ file = last.read
  /\ Len(disk.jobs) = 1

C34_SavedEveryJobWithState ==
  /\ file.exists /\ file.closed
  /\ Len(disk.jobs) = 1
  /\ disk.jobs[1].schedule.kind = "every"
  /\ disk.jobs[1].payload.kind = "agentTurn"
  /\ Has(disk.jobs[1].state, "lastError")
  /\ loadCronStore(file) = disk

\* The nextRunAtMs of the stored jobs whose enabled flag is true.
EnabledNextRuns ==
  {disk.jobs[i].state.nextRunAtMs :
     i \in {k \in 1..Len(disk.jobs) :
              /\ Has(disk.jobs[k], "enabled") /\ disk.jobs[k].enabled = TRUE
              /\ Has(disk.jobs[k].state, "nextRunAtMs")}}

\* C35: getStatus returns the number of stored jobs and, as nextWakeAtMs, the
\* least nextRunAtMs of the enabled jobs that have one; it is null exactly when
\* there is none, whatever the disabled jobs hold.
C35_StatusIsMinOfEnabled ==
  (last.req.op = "getStatus") =>
    /\ last.ok
    /\ last.data.jobs = Len(disk.jobs)
    /\ (last.data.nextWakeAtMs = null) <=> (EnabledNextRuns = {})
    /\ EnabledNextRuns # {} =>
         /\ last.data.nextWakeAtMs \in EnabledNextRuns
         /\ \A n \in EnabledNextRuns : last.data.nextWakeAtMs <= n

\* C35 witness: getStatus on a store whose disabled job has an earlier
\* nextRunAtMs than its enabled job.
C35_DisabledEarlier ==
  /\ last.req.op = "getStatus"
  /\ Len(disk.jobs) = 2
  /\ \E i, k \in 1..2 :
       /\ ~Truthy(disk.jobs[i], "enabled")
       /\ Has(disk.jobs[i].state, "nextRunAtMs")
       /\ Truthy(disk.jobs[k], "enabled")
       /\ Has(disk.jobs[k].state, "nextRunAtMs")
       /\ disk.jobs[i].state.nextRunAtMs < disk.jobs[k].state.nextRunAtMs
       /\ last.data.nextWakeAtMs = disk.jobs[k].state.nextRunAtMs

\* The jobs getDueJobs returns at time t are in ascending order of nextRunAtMs,
\* and in ascending order of id where nextRunAtMs is equal.
DueInOrder(t) ==
  LET due == getDueJobsOn(disk, t).data
  IN \A i, k \in 1..Len(due) :
       i < k =>
         \/ due[i].state.nextRunAtMs < due[k].state.nextRunAtMs
         \/ /\ due[i].state.nextRunAtMs = due[k].state.nextRunAtMs
            /\ due[i].id < due[k].id

\* C36: at any time, getDueJobs returns the due jobs earliest first, ties by id.
C36_DueSorted == \A t \in Later : DueInOrder(t)

\* C38: whenever getDueJobs at a time t returns a job, getStatus on the same
\* store reports a nextWakeAtMs that is not null and is at most t.
C38_WakeNotAfterDue ==
  \A t \in Later :
    DueIds(disk, t) # {} =>
      /\ getStatusOn(disk).data.nextWakeAtMs # null
      /\ getStatusOn(disk).data.nextWakeAtMs <= t

\* C38 witness: two enabled jobs, the second stored having the earlier
\* nextRunAtMs and being the only one due now; getStatus reports its time.
C38_LaterJobFirst ==
  /\ Len(disk.jobs) = 2
  /\ Truthy(disk.jobs[1], "enabled") /\ Truthy(disk.jobs[2], "enabled")
  /\ Has(disk.jobs[1].state, "nextRunAtMs") /\ Has(disk.jobs[2].state, "nextRunAtMs")
  /\ disk.jobs[2].state.nextRunAtMs < disk.jobs[1].state.nextRunAtMs
  /\ DueIds(disk, clock) = {disk.jobs[2].id}
  /\ last.req.op = "getStatus"
  /\ last.data.nextWakeAtMs = disk.jobs[2].state.nextRunAtMs

\* C40: list, get, getDueJobs and getStatus leave the persisted collection as
\* it was (jobs, fields and order) and save nothing, whatever they return; list
\* returns the jobs whose enabled flag is true, and every job with
\* includeDisabled.
C40_ReadsLeaveStore ==
  [][(IsCall /\ last'.req.op \in ReadOnly) =>
       /\ disk' = disk
       /\ ~last'.saved
       /\ last'.req.op = "listJobs" =>
            LET jobs == last'.data
                stored == {disk.jobs[i] : i \in 1..Len(disk.jobs)}
                expected == IF last'.req.includeDisabled THEN stored
                            ELSE {j \in stored : Has(j, "enabled") /\ j.enabled = TRUE}
            IN /\ last'.ok
               /\ {jobs[i] : i \in 1..Len(jobs)} = expected
               /\ Len(jobs) = Cardinality(expected)]_vars

\* C40 witness: list without includeDisabled returned one of two stored jobs,
\* and the stored order is not the order of nextRunAtMs.
C40_ListedOneOfTwo ==
  /\ last.req.op = "listJobs"
  /\ last.ok
  /\ ~last.req.includeDisabled
  /\ Len(last.data) = 1
  /\ Len(disk.jobs) = 2
  /\ sortKey(disk.jobs[1]) > sortKey(disk.jobs[2])

\* A stored job with an `every` schedule whose enabled flag is true.
Recurring(id) ==
  /\ \E i \in 1..Len(disk.jobs) : disk.jobs[i].id = id
  /\ JobOf(disk, id).schedule.kind = "every"
  /\ Truthy(JobOf(disk, id), "enabled")

\* Job id is stored with runningAtMs set.
Running(id) == Recurring(id) /\ TruthyNum(JobOf(disk, id).state, "runningAtMs")

\* Job id has completed a run, is not running, and its next run is at a time
\* the clock reaches.
CompletedBeforeHorizon(id) ==
  /\ Recurring(id)
  /\ ~Running(id)
  /\ Has(JobOf(disk, id).state, "lastRunAtMs")
  /\ Has(JobOf(disk, id).state, "nextRunAtMs")
  /\ JobOf(disk, id).state.nextRunAtMs <= PollMaxTime

\* The poller's last getDueJobs returned job id, which it has not started yet.
ReturnedDue(id) == \E i \in 1..Len(todo[poller]) : todo[poller][i] = id

\* C37: under a fair poller and an advancing clock, an enabled `every` job that
\* is never disabled or removed always has a nextRunAtMs, does not stay
\* running, and after every completion is returned by getDueJobs again (for
\* completions whose next run lies at a time the clock reaches).
C37_DueAgain ==
  \A id \in Ids :
    /\ [](Recurring(id) => Has(JobOf(disk, id).state, "nextRunAtMs"))
    /\ Running(id) ~> ~Running(id)
    /\ CompletedBeforeHorizon(id) ~> ReturnedDue(id)

\* C37 witness: a job that completed a run with status error is returned by
\* getDueJobs again, together with another job.
C37_ReturnedAgain ==
  \E id \in Ids :
    /\ ReturnedDue(id)
    /\ Recurring(id)
    /\ Has(JobOf(disk, id).state, "lastRunAtMs")
    /\ JobOf(disk, id).state.lastStatus = "error"
    /\ Len(todo[poller]) = 2

\* C39: markRunning on a job whose enabled flag is true changes that job's
\* runningAtMs and updatedAtMs and nothing else: every other field of the job,
\* every other state field (nextRunAtMs and the last-run fields among them),
\* and every other job are as they were.
C39_MarkRunningFrame ==
  [][(/\ IsCall
      /\ last'.req.op = "markJobRunning"
      /\ last'.req.id \in StoredIds
      /\ Truthy(JobOf(disk, last'.req.id), "enabled")) =>
       LET at == FindIndex(disk.jobs, last'.req.id)
           old == disk.jobs[at]
           new == disk'.jobs[at]
       IN /\ last'.ok
          /\ Len(disk'.jobs) = Len(disk.jobs)
          /\ \A i \in 1..Len(disk.jobs) : i # at => disk'.jobs[i] = disk.jobs[i]
          /\ Has(new.state, "runningAtMs")
          /\ new.state.runningAtMs = last'.req.patch.state.runningAtMs
          /\ \A f \in (DOMAIN old \cup DOMAIN new) \ {"updatedAtMs", "state"} :
               SameField(old, new, f)
          /\ \A g \in (DOMAIN old.state \cup DOMAIN new.state) \ {"runningAtMs"} :
               SameField(old.state, new.state, g)]_vars

\* C39 witness: markRunning returned on an enabled job that keeps its
\* nextRunAtMs, in a store of two jobs.
C39_MarkedAmongTwo ==
  /\ last.req.op = "markJobRunning"
  /\ last.ok
  /\ Len(disk.jobs) = 2
  /\ Truthy(last.data, "enabled")
  /\ Has(last.data.state, "nextRunAtMs")
  /\ last.data.state.nextRunAtMs <= last.now
  /\ JobOf(disk, last.req.id) = last.data

====
